---------------------------- MODULE Spec2Model ----------------------------
(***************************************************************************)
(* Address service of src/main.py: a table of address rows behind four     *)
(* HTTP handlers (create, update, delete, proximity search), each run      *)
(* inside a session handed out by the get_db dependency.                   *)
(*                                                                         *)
(* Representation.                                                         *)
(*  - The table is the sequence of its rows in rowid order, which is the   *)
(*    order Query.all() yields them for a plain SELECT on SQLite.          *)
(*  - Coordinates are whole degrees and distances whole kilometres; the    *)
(*    coordinate sets hold the range limits, a value beyond each limit     *)
(*    and points whose geodesic distances are known constants of WGS-84.   *)
(*  - None is the empty tuple and a supplied value v is <<v>>, so that     *)
(*    an optional field is comparable whatever its type.                   *)
(*  - A response is [status, body]: 200, 404 (HTTPException), 422          *)
(*    (request validation), 500 (an exception leaving the handler or the   *)
(*    response model rejecting the returned object).                       *)
(***************************************************************************)
EXTENDS Integers, Sequences, FiniteSets, TLC

VARIABLES db, pc, session, req, resp

vars == <<db, pc, session, req, resp>>

\* ------------------------------------------------------------------ bounds
\* Largest primary key the model lets the table hand out.
MaxId == 2
\* Largest number of fields one update request of the model supplies.
MaxPresent == 2

\* ------------------------------------------------------------- input sets
Workers == {1, 2}

Streets == {"s1"}
Cities == {"c1", "c2"}
States == {"st1"}
Countries == {"co1"}
Latitudes == {0, 90, 91}
Longitudes == {0, 360}

CenterLatitudes == {-91, -90, 0, 90}
CenterLongitudes == {0, 180, 360}
Radii == {-1, 0, 10001, 10002, 20004}

FieldNames == {"street", "city", "state", "country", "latitude", "longitude"}

None == <<>>
Some(v) == <<v>>
Optional(S) == {None} \cup {Some(v) : v \in S}

\* ------------------------------------------------------------ AddressCreate
AddressCreateBodies ==
    [street : Streets, city : Cities, state : States, country : Countries,
     latitude : Latitudes, longitude : Longitudes]

\* @field_validator('latitude', 'longitude')
check_coordinates(field_name, value) ==
    /\ ~(field_name = "latitude" /\ (value < -90 \/ value > 90))
    /\ ~(field_name = "longitude" /\ (value < -180 \/ value > 180))

\* Mutant: the longitude constraints are missing.
AddressCreateValid_latitudeOnly(a) ==
    /\ a.latitude >= -90 /\ a.latitude <= 90
    /\ check_coordinates("latitude", a.latitude)

\* The model accepts a body: Field(ge, le) on both coordinates, then the
\* field validator on both.
AddressCreateValid(a) ==
    /\ a.latitude >= -90 /\ a.latitude <= 90
    /\ a.longitude >= -180 /\ a.longitude <= 180
    /\ check_coordinates("latitude", a.latitude)
    /\ check_coordinates("longitude", a.longitude)

\* ------------------------------------------------------------ AddressUpdate
AllUpdateBodies ==
    [street : Optional(Streets), city : Optional(Cities),
     state : Optional(States), country : Optional(Countries),
     latitude : Optional(Latitudes), longitude : Optional(Longitudes)]

Present(address) == {f \in FieldNames : address[f] # None}

AddressUpdateBodies ==
    {b \in AllUpdateBodies : Cardinality(Present(b)) <= MaxPresent}

\* ------------------------------------------------------------------ Address
Ids(rows) == {rows[i].id : i \in 1..Len(rows)}

MaxOf(S) == CHOOSE m \in S : \A x \in S : x <= m

\* INTEGER PRIMARY KEY on SQLite: the new rowid is one more than the largest
\* rowid in the table, 1 in an empty table.
NextRowId(rows) == IF rows = <<>> THEN 1 ELSE MaxOf(Ids(rows)) + 1

\* Mutant: latitude and longitude are stored in each other's column.
Address_swapped(address, id) ==
    [id |-> id, street |-> address.street, city |-> address.city,
     state |-> address.state, country |-> address.country,
     latitude |-> address.longitude, longitude |-> address.latitude]

\* Address(**address.dict()) once the insert has given it its id.
Address(address, id) ==
    [id |-> id, street |-> address.street, city |-> address.city,
     state |-> address.state, country |-> address.country,
     latitude |-> address.latitude, longitude |-> address.longitude]

\* db.query(Address).filter(Address.id == address_id).first(): the position
\* of the row, 0 when there is none.
First(rows, address_id) ==
    IF address_id \in Ids(rows)
    THEN CHOOSE i \in 1..Len(rows) : rows[i].id = address_id
    ELSE 0

\* response_model=AddressCreate: the fields the response carries.
ResponseModel(row) ==
    [street |-> row.street, city |-> row.city, state |-> row.state,
     country |-> row.country, latitude |-> row.latitude,
     longitude |-> row.longitude]

Response(status, body) == [status |-> status, body |-> body]

\* The returned row serialised through the response model, which validates
\* it as it validates a request body.
Serialize(row) ==
    IF AddressCreateValid(ResponseModel(row))
    THEN Response(200, ResponseModel(row))
    ELSE Response(500, "ResponseValidationError")

\* ---------------------------------------------------------- create_address
\* db.add(db_address); db.commit(); db.refresh(db_address)
create_address(rows, address) ==
    Append(rows, Address(address, NextRowId(rows)))

\* ---------------------------------------------------------- update_address
\* Mutant: every field is assigned, None included, so an absent field
\* loses its stored value.
ApplyUpdate_noNoneCheck(row, address) ==
    [f \in DOMAIN row |->
        IF f \in FieldNames
        THEN (IF address[f] # None THEN address[f][1]
              ELSE IF f \in {"latitude", "longitude"} THEN 0 ELSE "")
        ELSE row[f]]

\* for var, value in vars(address).items():
\*     if value is not None: setattr(db_address, var, value)
ApplyUpdate(row, address) ==
    [f \in DOMAIN row |->
        IF f \in FieldNames /\ address[f] # None THEN address[f][1] ELSE row[f]]

\* The table after the commit; address_id is the id of a row.
update_address(rows, address_id, address) ==
    [rows EXCEPT ![First(rows, address_id)] = ApplyUpdate(@, address)]

\* ---------------------------------------------------------- delete_address
\* Mutant: the row is picked by its position in the table, not by its id.
delete_address_byPosition(rows, address_id) ==
    IF address_id <= Len(rows)
    THEN SubSeq(rows, 1, address_id - 1) \o SubSeq(rows, address_id + 1, Len(rows))
    ELSE rows

\* db.delete(db_address); db.commit(); address_id is the id of a row.
delete_address(rows, address_id) ==
    SubSeq(rows, 1, First(rows, address_id) - 1)
        \o SubSeq(rows, First(rows, address_id) + 1, Len(rows))

\* -------------------------------------------------------------- geodesic
\* geopy's Point: a latitude beyond +-90 raises ValueError.
PointOk(lat) == ~(lat > 90 \/ lat < -90)

\* geopy's Point: a longitude beyond +-180 is wrapped into the range.
NormalizeLongitude(lon) ==
    IF lon > 180 \/ lon < -180 THEN ((lon + 180) % 360) - 180 ELSE lon

\* Pole to equator along a meridian of WGS-84, in whole kilometres.
QuarterMeridianKm == 10002

Abs(x) == IF x < 0 THEN -x ELSE x

\* geodesic(a, b).km for points on the equator or at a pole whose
\* longitudes differ by a multiple of 180 degrees.
geodesic_km(latA, lonA, latB, lonB) ==
    LET dlon == (NormalizeLongitude(lonA) - NormalizeLongitude(lonB)) % 360
    IN  IF Abs(latA) = 90 /\ Abs(latB) = 90
        THEN (IF latA = latB THEN 0 ELSE 2 * QuarterMeridianKm)
        ELSE IF Abs(latA) = 90 \/ Abs(latB) = 90
        THEN QuarterMeridianKm
        ELSE (IF dlon = 0 THEN 0 ELSE 2 * QuarterMeridianKm)

\* ------------------------------------------ read_addresses_within_distance
\* Mutant: a row at exactly distance_km is left out.
Within_strict(distance, distance_km) == distance < distance_km

\* if distance <= distance_km
Within(distance, distance_km) == distance <= distance_km

RECURSIVE Scan(_, _, _, _, _, _)
\* The loop over the rows from position i on, result holding the rows kept
\* so far; geodesic raising ends the request.
Scan(rows, i, lat, lon, distance_km, result) ==
    IF i > Len(rows)
    THEN Response(200, result)
    ELSE IF ~(PointOk(lat) /\ PointOk(rows[i].latitude))
    THEN Response(500, "ValueError")
    ELSE Scan(rows, i + 1, lat, lon, distance_km,
              IF Within(geodesic_km(lat, lon, rows[i].latitude, rows[i].longitude),
                        distance_km)
              THEN Append(result, rows[i])
              ELSE result)

read_addresses_within_distance(rows, lat, lon, distance_km) ==
    Scan(rows, 1, lat, lon, distance_km, <<>>)

\* ------------------------------------------------------------------ get_db
\* Mutant: the session is closed only after a request that succeeded.
get_db_finally_onSuccess(status) == IF status = 200 THEN "closed" ELSE "open"

\* finally: db.close()
get_db_finally(status) == "closed"

NoRequest == [op |-> "none"]
NoResponse == [status |-> 0, body |-> "none"]

Init ==
    /\ db = <<>>
    /\ pc = [r \in Workers |-> "idle"]
    /\ session = [r \in Workers |-> "none"]
    /\ req = [r \in Workers |-> NoRequest]
    /\ resp = [r \in Workers |-> NoResponse]

\* A request arrives: Depends(get_db) runs SessionLocal() up to its yield.
GetDb(r) ==
    /\ pc[r] = "idle"
    /\ pc' = [pc EXCEPT ![r] = "acquired"]
    /\ session' = [session EXCEPT ![r] = "open"]
    /\ resp' = [resp EXCEPT ![r] = NoResponse]
    /\ UNCHANGED <<db, req>>

Handle(r, request, response, rows) ==
    /\ pc' = [pc EXCEPT ![r] = "handled"]
    /\ req' = [req EXCEPT ![r] = request]
    /\ resp' = [resp EXCEPT ![r] = response]
    /\ db' = rows
    /\ UNCHANGED session

\* POST /addresses/
CreateAddress(r, address) ==
    /\ pc[r] = "acquired"
    /\ IF AddressCreateValid(address)
       THEN /\ NextRowId(db) <= MaxId
            /\ Handle(r, [op |-> "create", address |-> address],
                      Serialize(create_address(db, address)[Len(db) + 1]),
                      create_address(db, address))
       ELSE Handle(r, [op |-> "create", address |-> address],
                   Response(422, "ValidationError"), db)

\* PUT /addresses/{address_id}
UpdateAddress(r, address_id, address) ==
    /\ pc[r] = "acquired"
    /\ LET request == [op |-> "update", address_id |-> address_id, address |-> address]
           rows == update_address(db, address_id, address)
       IN  IF First(db, address_id) = 0
           THEN Handle(r, request, Response(404, "Address not found"), db)
           ELSE Handle(r, request, Serialize(rows[First(db, address_id)]), rows)

\* DELETE /addresses/{address_id}
DeleteAddress(r, address_id) ==
    /\ pc[r] = "acquired"
    /\ LET request == [op |-> "delete", address_id |-> address_id]
       IN  IF First(db, address_id) = 0
           THEN Handle(r, request, Response(404, "Address not found"), db)
           ELSE Handle(r, request, Response(200, "Address deleted"),
                       delete_address(db, address_id))

\* GET /addresses/
ReadAddresses(r, lat, lon, distance_km) ==
    /\ pc[r] = "acquired"
    /\ Handle(r, [op |-> "search", lat |-> lat, lon |-> lon,
                  distance_km |-> distance_km],
              read_addresses_within_distance(db, lat, lon, distance_km), db)

\* The request ends: get_db resumes after its yield and runs its finally;
\* the worker keeps the status it answered until its next request.
CloseDb(r) ==
    /\ pc[r] = "handled"
    /\ pc' = [pc EXCEPT ![r] = "idle"]
    /\ session' = [session EXCEPT ![r] = get_db_finally(resp[r].status)]
    /\ req' = [req EXCEPT ![r] = NoRequest]
    /\ resp' = [resp EXCEPT ![r] = Response(resp[r].status, "sent")]
    /\ UNCHANGED db

\* Requests served one at a time, over every input of the model.
Next ==
    \/ GetDb(1)
    \/ \E address \in AddressCreateBodies : CreateAddress(1, address)
    \/ \E address_id \in 1..MaxId, address \in AddressUpdateBodies :
           UpdateAddress(1, address_id, address)
    \/ \E address_id \in 1..MaxId : DeleteAddress(1, address_id)
    \/ \E lat \in CenterLatitudes, lon \in CenterLongitudes, distance_km \in Radii :
           ReadAddresses(1, lat, lon, distance_km)
    \/ CloseDb(1)

Spec == Init /\ [][Next]_vars

\* Requests of several workers interleaved, over one input per exit path.
ConcCreateBodies ==
    {a \in AddressCreateBodies : a.city = "c1" /\ a.longitude = 0 /\ a.latitude # 90}

ConcUpdateBodies == {b \in AddressUpdateBodies : Present(b) = {"latitude"}}

NextConc ==
    \E r \in Workers :
        \/ GetDb(r)
        \/ \E address \in ConcCreateBodies : CreateAddress(r, address)
        \/ \E address_id \in 1..MaxId, address \in ConcUpdateBodies :
               UpdateAddress(r, address_id, address)
        \/ \E address_id \in 1..MaxId : DeleteAddress(r, address_id)
        \/ \E lat \in {-91, 0} : ReadAddresses(r, lat, 0, 0)
        \/ CloseDb(r)

SpecConc == Init /\ [][NextConc]_vars

\* ------------------------------------------------------------------ claims
\* The step in which worker r's handler for op runs.
Handled(r, op) ==
    /\ pc[r] = "acquired"
    /\ pc'[r] = "handled"
    /\ req'[r].op = op

\* The six fields of a row, without its id.
Fields(row) == [f \in FieldNames |-> row[f]]

InRange(latitude, longitude) ==
    /\ latitude \in -90..90
    /\ longitude \in -180..180

C2_CreateStoresRecord ==
    [][\A r \in Workers :
        (Handled(r, "create")
            /\ InRange(req'[r].address.latitude, req'[r].address.longitude)) =>
        /\ resp'[r].status = 200
        /\ Len(db') = Len(db) + 1
        /\ SubSeq(db', 1, Len(db)) = db
        /\ db'[Len(db')].id \notin Ids(db)
        /\ First(db', db'[Len(db')].id) = Len(db')
        /\ Fields(db'[Len(db')]) = req'[r].address]_vars

\* A create has just added a second row, at the pole.
C2_Witness ==
    /\ pc[1] = "handled"
    /\ req[1].op = "create"
    /\ resp[1].status = 200
    /\ Len(db) = 2
    /\ Fields(db[2]) = req[1].address
    /\ db[2].latitude = 90

\* C3: a create whose latitude is outside [-90,90] or whose longitude is
\* outside [-180,180] is refused with a validation error and adds no row.
C3_CreateRejectsOutOfRange ==
    [][\A r \in Workers :
        (Handled(r, "create")
            /\ ~InRange(req'[r].address.latitude, req'[r].address.longitude)) =>
        /\ resp'[r].status = 422
        /\ db' = db]_vars

\* A create with a good latitude and a longitude out of range was refused.
C3_Witness ==
    /\ pc[1] = "handled"
    /\ req[1].op = "create"
    /\ req[1].address.latitude = 90
    /\ req[1].address.longitude > 180
    /\ resp[1].status = 422
    /\ Len(db) = 1

\* C4: an update of an existing id gives each supplied field of that row the
\* supplied value and leaves its other fields, its id, the number and order
\* of the rows and every other row unchanged.
C4_UpdateIsPartial ==
    [][\A r \in Workers :
        (Handled(r, "update") /\ req'[r].address_id \in Ids(db)) =>
        /\ Len(db') = Len(db)
        /\ \A i \in 1..Len(db) :
              IF db[i].id = req'[r].address_id
              THEN /\ db'[i].id = db[i].id
                   /\ \A f \in FieldNames :
                         db'[i][f] = IF req'[r].address[f] # None
                                     THEN req'[r].address[f][1]
                                     ELSE db[i][f]
              ELSE db'[i] = db[i]]_vars

\* An update that supplied the city alone was applied to the first of two
\* rows, whose coordinates are not the defaults of a fresh row.
C4_Witness ==
    /\ pc[1] = "handled"
    /\ req[1].op = "update"
    /\ Present(req[1].address) = {"city"}
    /\ Len(db) = 2
    /\ req[1].address_id = db[1].id
    /\ db[1].city = "c2"
    /\ db[1].latitude = 90
    /\ db[1].longitude = 360
    /\ db[2].city = "c1"

\* C5: update and delete answer NotFound exactly when no row has the id, and
\* then leave the table as it was; a delete of an existing id removes the
\* rows with that id and no other, so the id is unknown afterwards.
C5_NotFoundAndDelete ==
    [][\A r \in Workers :
        (Handled(r, "update") \/ Handled(r, "delete")) =>
        LET id == req'[r].address_id
            Other(row) == row.id # id
        IN  /\ (resp'[r].status = 404) <=> (id \notin Ids(db))
            /\ (resp'[r].status = 404) => db' = db
            /\ (req'[r].op = "delete" /\ id \in Ids(db)) =>
                  /\ resp'[r].status = 200
                  /\ db' = SelectSeq(db, Other)
                  /\ Len(db') = Len(db) - 1
                  /\ id \notin Ids(db')]_vars

\* A delete has removed a row whose id is not its position in the table.
C5_Witness ==
    /\ pc[1] = "handled"
    /\ req[1].op = "delete"
    /\ resp[1].status = 200
    /\ req[1].address_id = 2
    /\ Len(db) = 1
    /\ db[1].id = 1

\* C6 (as claimed): every row of the table has its latitude in [-90,90] and
\* its longitude in [-180,180].
C6_CoordinatesInRange ==
    \A i \in 1..Len(db) : InRange(db[i].latitude, db[i].longitude)

\* C7 (as claimed): a request answered with an error leaves the table as it
\* was.
C7_FailureHasNoEffect ==
    [][\A r \in Workers :
        (pc[r] = "acquired" /\ pc'[r] = "handled" /\ resp'[r].status # 200) =>
        db' = db]_vars

\* C8 (as claimed): the answer to a successful create or update carries the
\* id of the row created or updated.
C8_ResponseCarriesId ==
    \A r \in Workers :
        (pc[r] = "handled" /\ req[r].op \in {"create", "update"}
            /\ resp[r].status = 200) =>
        /\ "id" \in DOMAIN resp[r].body
        /\ resp[r].body.id \in Ids(db)

\* C9: a worker holds an open session exactly while it has a request in
\* hand: none is open once the request has ended, whatever its outcome.
C9_SessionScoped ==
    \A r \in Workers :
        /\ pc[r] = "idle" => session[r] # "open"
        /\ pc[r] # "idle" => session[r] = "open"

\* Worker 1 has ended a request answered NotFound, its session closed, while
\* worker 2 is still in a request that failed in the handler.
C9_Witness ==
    /\ pc[1] = "idle"
    /\ resp[1].status = 404
    /\ session[1] = "closed"
    /\ pc[2] = "handled"
    /\ resp[2].status = 500
    /\ session[2] = "open"

\* C10 (as claimed): a proximity search always answers with a list, leaves
\* the table as it was, and answers a negative distance_km with the empty
\* list.
C10_SearchNeverFails ==
    [][\A r \in Workers : Handled(r, "search") =>
        /\ resp'[r].status = 200
        /\ db' = db
        /\ req'[r].distance_km < 0 => resp'[r].body = <<>>]_vars

=============================================================================
